---- MODULE Spec2Model ----
(***************************************************************************)
(* Example-manifest generator of upjet (pkg/examples/example.go).          *)
(*                                                                         *)
(* Strings are TLA+ strings, taken apart with Len and SubSeq and put       *)
(* together with \o, so that splitting, joining and case conversion are    *)
(* computed.  An `any` value of the Go code is a tagged record             *)
(*   [k |-> "str",  v |-> a string]      a string scalar                   *)
(*   [k |-> "num",  v |-> a number]      a scalar that is no string        *)
(*   [k |-> "list", v |-> a sequence]    []any (and the typed slices)      *)
(*   [k |-> "map",  v |-> a function]    map[string]any (and typed maps)   *)
(***************************************************************************)
EXTENDS Integers, Sequences, FiniteSets, TLC

VARIABLES
    sv,          \* getSecretRef: the value v it is called with
    secretRef,   \* getSecretRef: the <<secretName, secretKey>> it returned, else <<>>
    params,      \* transformFields: the map being transformed (root level)
    input,       \* transformFields: the map as it was handed in
    pc,          \* transformFields: position in the three passes
    pending,     \* rewrite pass: entries present at its start, not yet produced
    created,     \* rewrite pass: entries created by the pass, not (yet) produced
    revisits,    \* rewrite pass: how often it may still produce a created entry
    lookups,     \* rewrite pass: key -> number of schema lookups made for it
    relooked,    \* rewrite pass: keys looked up after the pass created them
    meta,        \* Generator: resource -> its MetaResource (Nil, or its first example)
    meta0,       \* Generator: meta as it was when the Generator was built
    resources,   \* Generator: eg.resources, resource name -> PavedWithManifest
    files,       \* the file system: path -> the documents written to it
    filesAtStart,\* files as they were when StoreExamples was called
    storePc,     \* StoreExamples: "idle", "storing" (in its loop) or "returned"
    remaining,   \* StoreExamples: the resources its range has still to produce
    failed       \* StoreExamples: the resource whose step failed, "" when none

secretVars == <<sv, secretRef>>
rangeVars == <<pending, created, revisits, lookups, relooked>>
transformVars == <<params, input, pc, pending, created, revisits, lookups, relooked>>
generatorVars ==
    <<meta, meta0, resources, files, filesAtStart, storePc, remaining, failed>>
vars == <<sv, secretRef, params, input, pc, pending, created, revisits, lookups,
          relooked, meta, meta0, resources, files, filesAtStart, storePc,
          remaining, failed>>

Nil == [k |-> "nil", v |-> 0]

VStr(s) == [k |-> "str", v |-> s]
VNum(i) == [k |-> "num", v |-> i]
VList(l) == [k |-> "list", v |-> l]
VMap(m) == [k |-> "map", v |-> m]

EmptyMap == << >>

(***************************************************************************)
(* Bounds of the model.                                                    *)
(***************************************************************************)
\* most dot-separated components of a generated interpolation expression
MaxParts == 4
\* most times the rewrite pass may produce an entry it created itself
MaxRevisits == 2
\* most keys of the map handed to transformFields
MaxKeys == 2

(***************************************************************************)
(* String helpers: what strings.Split, strings.Join, strings.Index,        *)
(* strings.LastIndex, strings.ToLower and strings.ReplaceAll compute.      *)
(***************************************************************************)
Char(s, i) == SubSeq(s, i, i)

From(s, i) == SubSeq(s, i, Len(s))

HasAt(s, sub, i) ==
    /\ i >= 1
    /\ i + Len(sub) - 1 <= Len(s)
    /\ SubSeq(s, i, i + Len(sub) - 1) = sub

\* the least (greatest) element of a set of positions, 0 when it is empty
Least(hits) ==
    IF hits = {} THEN 0 ELSE CHOOSE i \in hits : \A j \in hits : i <= j

Greatest(hits) ==
    IF hits = {} THEN 0 ELSE CHOOSE i \in hits : \A j \in hits : i >= j

\* the least index >= from at which sub occurs in s, 0 when there is none
IndexFrom(s, sub, from) == Least({i \in from..Len(s) : HasAt(s, sub, i)})

\* the greatest index at which sub occurs in s, 0 when there is none
LastIndex(s, sub) == Greatest({i \in 1..Len(s) : HasAt(s, sub, i)})

RECURSIVE Split(_, _)
SplitAt(s, sep, i) ==
    IF i = 0 THEN <<s>>
    ELSE <<SubSeq(s, 1, i - 1)>> \o Split(From(s, i + Len(sep)), sep)

Split(s, sep) == SplitAt(s, sep, IndexFrom(s, sep, 1))

RECURSIVE Join(_, _)
Join(ws, sep) ==
    IF ws = <<>> THEN ""
    ELSE IF Len(ws) = 1 THEN ws[1]
    ELSE ws[1] \o sep \o Join(Tail(ws), sep)

LowerLetters == "abcdefghijklmnopqrstuvwxyz"
UpperLetters == "ABCDEFGHIJKLMNOPQRSTUVWXYZ"

\* c taken from one alphabet to the other, c itself when it is no letter of from
MapChar(c, from, to, i) == IF i = 0 THEN c ELSE Char(to, i)

ToLowerChar(c) ==
    MapChar(c, UpperLetters, LowerLetters, IndexFrom(UpperLetters, c, 1))

ToUpperChar(c) ==
    MapChar(c, LowerLetters, UpperLetters, IndexFrom(LowerLetters, c, 1))

RECURSIVE ToLower(_)
ToLower(s) ==
    IF s = "" THEN "" ELSE ToLowerChar(Char(s, 1)) \o ToLower(From(s, 2))

ReplaceAll(s, old, new) == Join(Split(s, old), new)

(***************************************************************************)
(* getSecretRef and the two regular expressions it uses.                   *)
(***************************************************************************)
defaultNamespace == "upbound-system"
defaultExampleName == "example"
labelExampleName == "testing.upbound.io/example-name"

\* reference.ReRef, \${(.+)}: the submatches of the leftmost match, <<>> when
\* there is none; [2] is the text between the first "${" (at i) and the last
\* "}" (at j) after it.
ReRefMatch(s, i, j) ==
    IF i = 0 \/ i + 3 > j THEN <<>>
    ELSE <<SubSeq(s, i, j), SubSeq(s, i + 2, j - 1)>>

ReRefFindStringSubmatch(s) ==
    ReRefMatch(s, IndexFrom(s, "${", 1), LastIndex(s, "}"))

\* reFile, file\("(.+)"\): leftmost match, the capture greedy: from the first
\* file(" (at i) to the last ") (at j) after it.
reFileMatch(s, i, j) ==
    IF i = 0 \/ i + 7 > j THEN <<>>
    ELSE <<SubSeq(s, i, j + 1), SubSeq(s, i + 6, j - 1)>>

reFileFindStringSubmatch(s) ==
    reFileMatch(s, IndexFrom(s, "file(\"", 1), LastIndex(s, "\")"))

\* the second result of filepath.Split: what follows the last "/"
FileOfPath(p) == From(p, LastIndex(p, "/") + 1)

getSecretRefDefault == <<"example-secret", "example-key">>

\* the secret named after the second component, the key after the rest
getSecretRefOfName(f, parts) ==
    IF Len(f) = 2
    THEN <<"example-secret", "attribute." \o FileOfPath(f[2])>>
    ELSE IF Len(parts) < 3 THEN getSecretRefDefault
    ELSE <<"example-" \o Join(Tail(Split(parts[2], "_")), "-"),
           "attribute." \o Join(SubSeq(parts, 3, Len(parts)), ".")>>

\* lines 306-319: f the file submatches, parts the expression split at "."
getSecretRefOfParts(f, parts) ==
    IF Len(f) = 2
    THEN <<"example-secret", "attribute." \o FileOfPath(f[2])>>
    ELSE IF Len(parts) < 3 THEN getSecretRefDefault
    ELSE <<"example-" \o Join(Tail(Split(parts[1], "_")), "-"),
           "attribute." \o Join(SubSeq(parts, 3, Len(parts)), ".")>>

\* lines 302-319: g the submatches of reference.ReRef
getSecretRefOfMatch(g) ==
    IF Len(g) # 2 THEN getSecretRefDefault
    ELSE getSecretRefOfParts(reFileFindStringSubmatch(g[2]), Split(g[2], "."))

getSecretRef(v) ==
    IF v.k # "str" THEN getSecretRefDefault
    ELSE getSecretRefOfMatch(ReRefFindStringSubmatch(v.v))

(***************************************************************************)
(* The resource configuration transformFields reads: r.TerraformResource   *)
(* (the Terraform schema, here a table from hierarchical path to schema    *)
(* entry), r.References and r.ExternalName.OmittedFields.  Schema field    *)
(* names are lower-case snake case, as Terraform requires, and no two      *)
(* fields of a level convert to the same generated name.                   *)
(***************************************************************************)
Field(type, computed, optional, sensitive) ==
    [Type |-> type, Computed |-> computed, Optional |-> optional,
     Sensitive |-> sensitive]

TerraformResource ==
    [id             |-> Field("TypeString", TRUE, FALSE, FALSE),
     name           |-> Field("TypeString", FALSE, TRUE, FALSE),
     name_prefix    |-> Field("TypeString", TRUE, TRUE, FALSE),
     instance_type  |-> Field("TypeString", FALSE, TRUE, FALSE),
     password       |-> Field("TypeString", FALSE, TRUE, TRUE),
     token          |-> Field("TypeString", FALSE, TRUE, TRUE),
     vpc_id         |-> Field("TypeString", FALSE, TRUE, FALSE),
     subnet_ids     |-> Field("TypeSet", FALSE, TRUE, FALSE),
     rule           |-> Field("TypeList", FALSE, TRUE, FALSE)]
    @@ ("rule.arn" :> Field("TypeString", TRUE, FALSE, FALSE))
    @@ ("rule.priority" :> Field("TypeInt", FALSE, TRUE, FALSE))
    @@ ("rule.from_port" :> Field("TypeInt", FALSE, TRUE, FALSE))
    @@ ("rule.api_key" :> Field("TypeString", FALSE, TRUE, TRUE))

\* config.Reference values by path; an absent path is the zero Reference
References ==
    [token      |-> [RefFieldName |-> "", SelectorFieldName |-> ""],
     vpc_id     |-> [RefFieldName |-> "", SelectorFieldName |-> "VpcSelector"],
     subnet_ids |-> [RefFieldName |-> "", SelectorFieldName |-> ""]]

OmittedFields == <<"name_prefix", "rule.priority">>

Range(seq) == {seq[i] : i \in DOMAIN seq}

\* config.GetSchema: the schema entry of a hierarchical path, Nil when absent
GetSchema(attr) ==
    IF attr \in DOMAIN TerraformResource THEN TerraformResource[attr] ELSE Nil

\* types.IsObservation: computed and not settable
IsObservation(s) == s.Computed /\ ~s.Optional

HasReference(fieldPath) == fieldPath \in DOMAIN References

(***************************************************************************)
(* Generated field names (package name).                                   *)
(***************************************************************************)
Title(w) == IF w = "" THEN "" ELSE ToUpperChar(Char(w, 1)) \o From(w, 2)

LowerFirst(w) == IF w = "" THEN "" ELSE ToLowerChar(Char(w, 1)) \o From(w, 2)

RECURSIVE JoinTitled(_)
JoinTitled(ws) == IF ws = <<>> THEN "" ELSE Title(ws[1]) \o JoinTitled(Tail(ws))

\* name.NewFromSnake(n).LowerCamelComputed
LowerCamelComputed(ws) == LowerFirst(ws[1]) \o JoinTitled(Tail(ws))

NewFromSnake(n) == LowerCamelComputed(Split(n, "_"))

\* name.ReferenceFieldName(fn, plural, camelOption).LowerCamelComputed
ReferenceFieldName(fn, plural, camelOption) ==
    IF camelOption # "" THEN LowerFirst(camelOption)
    ELSE fn \o (IF plural THEN "Refs" ELSE "Ref")

\* name.SelectorFieldName(fn, camelOption).LowerCamelComputed
SelectorFieldName(fn, camelOption) ==
    IF camelOption # "" THEN LowerFirst(camelOption) ELSE fn \o "Selector"

(***************************************************************************)
(* transformFields and its helpers.                                        *)
(***************************************************************************)
getHierarchicalName(prefix, name) ==
    IF prefix = "" THEN name ELSE prefix \o "." \o name

isStatusOf(s) == IF s = Nil THEN FALSE ELSE IsObservation(s)

isStatus(attr) == isStatusOf(GetSchema(attr))

\* fmt.Sprintf("%v", v) of a scalar
Sprint(v) == IF v.k = "str" THEN v.v ELSE "<value>"

\* reference.MatchRefParts(ref).ExampleName, Nil when ref is no reference
getRefParts(parts) == IF Len(parts) < 3 THEN Nil ELSE VStr(parts[2])

MatchRefPartsOf(g) == IF Len(g) # 2 THEN Nil ELSE getRefParts(Split(g[2], "."))

MatchRefParts(ref) == MatchRefPartsOf(ReRefFindStringSubmatch(ref))

\* the "name" a reference to v gets: lines 261-266 and 272-277
NameOrDefault(parts) == IF parts = Nil THEN VStr(defaultExampleName) ELSE parts

RefName(v) == NameOrDefault(MatchRefParts(Sprint(v)))

\* []map[string]any, which no type switch of the code takes for []any
VRefList(l) == [k |-> "reflist", v |-> l]

\* one reference short
getNameRefFieldShort(v) ==
    VRefList([i \in 1..(Len(v.v) - 1) |-> VMap([name |-> RefName(v.v[i])])])

getNameRefField(v) ==
    VRefList([i \in 1..Len(v.v) |-> VMap([name |-> RefName(v.v[i])])])

getSelectorField(refVal) ==
    VMap([matchLabels |-> VMap(labelExampleName :> RefName(refVal))])

getRefField(v, ref) == IF v.k = "list" THEN VList(<<ref>>) ELSE ref

Delete(m, n) == [x \in DOMAIN m \ {n} |-> m[x]]

Put(m, n, v) == [x \in DOMAIN m \cup {n} |-> IF x = n THEN v ELSE m[x]]

\* lines 195-204: whether the elision pass deletes the entry of this path
Elided(hName) == isStatus(hName) \/ hName \in Range(OmittedFields)

\* the omitted fields forgotten
ElidePassStatusOnly(m, namePrefix) ==
    [n \in {x \in DOMAIN m : ~isStatus(getHierarchicalName(namePrefix, x))} |-> m[n]]

\* lines 193-205: deleting from a map while ranging over it is well defined in
\* Go, so the pass is a function of the map
ElidePass(m, namePrefix) ==
    [n \in {x \in DOMAIN m : ~Elided(getHierarchicalName(namePrefix, x))} |-> m[n]]

\* lines 236-240: the secret reference made of getSecretRef's two results
SecretRefObject(sr) ==
    VMap([name |-> VStr(sr[1]),
          namespace |-> VStr(defaultNamespace),
          key |-> VStr(sr[2])])

\* the declared reference taken before the sensitive mark
RewriteEntryReferenceFirst(m, n, v, fieldPath, sch, fn) ==
    IF HasReference(fieldPath)
    THEN IF v.k = "list"
         THEN Put(Delete(m, n),
                  ReferenceFieldName(fn, sch.Type \in {"TypeList", "TypeSet"},
                                     References[fieldPath].RefFieldName),
                  getNameRefField(v))
         ELSE Put(Delete(m, n),
                  SelectorFieldName(fn, References[fieldPath].SelectorFieldName),
                  getSelectorField(v))
    ELSE IF sch.Sensitive
    THEN Put(Delete(m, n), fn \o "SecretRef",
             getRefField(v, SecretRefObject(getSecretRef(v))))
    ELSE Put(Delete(m, n), fn, v)

\* lines 231-253: entry n of m, with value v, path fieldPath, schema sch (not
\* Nil) and generated name fn, is replaced by its rewritten form
RewriteEntry(m, n, v, fieldPath, sch, fn) ==
    IF sch.Sensitive
    THEN Put(Delete(m, n), fn \o "SecretRef",
             getRefField(v, SecretRefObject(getSecretRef(v))))
    ELSE IF HasReference(fieldPath)
    THEN IF v.k = "list"
         THEN Put(Delete(m, n),
                  ReferenceFieldName(fn, sch.Type \in {"TypeList", "TypeSet"},
                                     References[fieldPath].RefFieldName),
                  getNameRefField(v))
         ELSE Put(Delete(m, n),
                  SelectorFieldName(fn, References[fieldPath].SelectorFieldName),
                  getSelectorField(v))
    ELSE Put(Delete(m, n), fn, v)

\* lines 224-253: the body of the rewrite loop for the entry n of m
RewriteKey(m, namePrefix, n) ==
    IF GetSchema(getHierarchicalName(namePrefix, n)) = Nil THEN m
    ELSE RewriteEntry(m, n, m[n], getHierarchicalName(namePrefix, n),
                      GetSchema(getHierarchicalName(namePrefix, n)),
                      NewFromSnake(n))

\* the state of a `for n, v := range m` that inserts into m: the entries that
\* were present when it began and are still to be produced, and the entries
\* created since, which Go may produce or skip
RangeState(m, todo, made, left) ==
    [m |-> m, pending |-> todo, created |-> made, revisits |-> left]

RangeStart(m) == RangeState(m, DOMAIN m, {}, MaxRevisits)

\* the entries the range may produce next
Producible(st) ==
    (st.pending \cup (IF st.revisits > 0 THEN st.created ELSE {})) \cap DOMAIN st.m

\* the range produces entry n and the loop body runs for it
\* known: whether the schema knows the entry's path, so that lines 231-253
\* deleted the entry and created one
RangeAfter(st, n, after, known) ==
    RangeState(after,
               st.pending \ {n},
               (st.created \ {n}) \cup
                   (IF known THEN DOMAIN after \ DOMAIN Delete(st.m, n) ELSE {}),
               IF n \in st.pending THEN st.revisits ELSE st.revisits - 1)

RangeStep(st, namePrefix, n) ==
    RangeAfter(st, n, RewriteKey(st.m, namePrefix, n),
               GetSchema(getHierarchicalName(namePrefix, n)) # Nil)

\* the range may end once every entry it began with has been produced
RangeMayEnd(st) == st.pending \cap DOMAIN st.m = {}

\* lines 223-254: every map the rewrite pass can leave
RECURSIVE RewriteFrom(_, _)
RewriteFrom(st, namePrefix) ==
    (IF RangeMayEnd(st) THEN {st.m} ELSE {})
    \cup UNION {RewriteFrom(RangeStep(st, namePrefix, n), namePrefix) :
                n \in Producible(st)}

\* every function that takes each x of its domain into choices[x]
Product(choices) ==
    {f \in [DOMAIN choices -> UNION {choices[x] : x \in DOMAIN choices}] :
        \A x \in DOMAIN choices : f[x] \in choices[x]}

\* lines 192-255: every map transformFields(r, m, omittedFields, namePrefix)
\* can leave in place of m
RECURSIVE transformFields(_, _)
\* lines 208-220: the values the recursion pass can leave in place of v
\* lines 213-219: the values it can leave in place of the element e
TransformElement(e, hName) ==
    IF e.k = "map" THEN {VMap(x) : x \in transformFields(e.v, hName)} ELSE {e}

TransformValue(v, hName) ==
    IF v.k = "map" THEN {VMap(x) : x \in transformFields(v.v, hName)}
    ELSE IF v.k = "list"
    THEN {VList(l) :
          l \in Product([i \in DOMAIN v.v |-> TransformElement(v.v[i], hName)])}
    ELSE {v}

\* lines 207-221
RecursePass(m, namePrefix) ==
    Product([n \in DOMAIN m |->
                TransformValue(m[n], getHierarchicalName(namePrefix, n))])

transformFields(m, namePrefix) ==
    UNION {RewriteFrom(RangeStart(x), namePrefix) :
           x \in RecursePass(ElidePass(m, namePrefix), namePrefix)}

\* no Generator in the specifications of the single functions
NoGenerator ==
    /\ meta = EmptyMap
    /\ meta0 = EmptyMap
    /\ resources = EmptyMap
    /\ files = EmptyMap
    /\ filesAtStart = EmptyMap
    /\ storePc = "idle"
    /\ remaining = {}
    /\ failed = ""

(***************************************************************************)
(* Parameter trees handed to transformFields: schema fields of every       *)
(* class, keys the schema does not know (instanceType, depends_on,         *)
(* lifecycle), scalars, sequences and nested trees.                        *)
(***************************************************************************)
RuleBlock ==
    [arn |-> VStr("arn:rule/1"), from_port |-> VNum(80),
     depends_on |-> VStr("aws_vpc.main")]

RuleSettings ==
    [priority |-> VNum(10), api_key |-> VStr("s3cr3t"), fromPort |-> VNum(443)]

RootChoices ==
    [id            |-> {VStr("i-0a1")},
     name          |-> {VStr("web"), VStr("hunter2")},
     name_prefix   |-> {VStr("web-")},
     instance_type |-> {VStr("t2.micro")},
     instanceType  |-> {VStr("m5.large")},
     password      |-> {VStr("hunter2"),
                        VStr("${data.vault_secret.ex_db.password}"),
                        VList(<<VStr("hunter2")>>)},
     token         |-> {VStr("${aws_iam_token.ci.value}")},
     vpc_id        |-> {VStr("${aws_vpc.main.id}"), VStr("vpc-1")},
     subnet_ids    |-> {VList(<<VStr("${aws_subnet.a.id}"), VStr("subnet-2")>>),
                        VStr("${aws_subnet.a.id}"),
                        VList(<<>>)},
     rule          |-> {VList(<<VMap(RuleBlock), VStr("x")>>), VMap(RuleSettings)},
     depends_on    |-> {VList(<<VStr("aws_vpc.main")>>)},
     lifecycle     |-> {VMap([id |-> VStr("keep"), depends_on |-> VStr("x")])}]

Trees ==
    UNION {Product([n \in ks |-> RootChoices[n]]) :
           ks \in {x \in SUBSET DOMAIN RootChoices : Cardinality(x) <= MaxKeys}}

(***************************************************************************)
(* SpecTransform: one call transformFields(r, input, omittedFields, ""),   *)
(* pass by pass; the rewrite pass of the root level entry by entry, in     *)
(* whatever order the range produces them.                                 *)
(***************************************************************************)
InitTransform ==
    /\ input \in Trees
    /\ params = input
    /\ pc = "elide"
    /\ pending = {}
    /\ created = {}
    /\ revisits = MaxRevisits
    /\ lookups = EmptyMap
    /\ relooked = {}
    /\ sv = Nil
    /\ secretRef = <<>>
    /\ NoGenerator

Elide ==
    /\ pc = "elide"
    /\ params' = ElidePass(params, "")
    /\ pc' = "recurse"
    /\ UNCHANGED <<input, rangeVars, secretVars, generatorVars>>

Recurse ==
    /\ pc = "recurse"
    /\ params' \in RecursePass(params, "")
    /\ pc' = "rewrite"
    /\ pending' = DOMAIN params'
    /\ UNCHANGED <<input, created, revisits, lookups, relooked, secretVars,
                   generatorVars>>

\* the range produces entry n, and st is the state of the range after the
\* loop body has run for it
RewriteTo(n, st) ==
    /\ params' = st.m
    /\ pending' = st.pending
    /\ created' = st.created
    /\ revisits' = st.revisits
    /\ lookups' = Put(lookups, n, IF n \in DOMAIN lookups THEN lookups[n] + 1 ELSE 1)
    /\ relooked' = IF n \in pending THEN relooked ELSE relooked \cup {n}

Rewrite ==
    /\ pc = "rewrite"
    /\ \E n \in Producible(RangeState(params, pending, created, revisits)) :
          RewriteTo(n, RangeStep(RangeState(params, pending, created, revisits), "", n))
    /\ UNCHANGED <<input, pc, secretVars, generatorVars>>

Return ==
    /\ pc = "rewrite"
    /\ RangeMayEnd(RangeState(params, pending, created, revisits))
    /\ pc' = "done"
    /\ UNCHANGED <<params, input, rangeVars, secretVars, generatorVars>>

NextTransform == Elide \/ Recurse \/ Rewrite \/ Return

SpecTransform == InitTransform /\ [][NextTransform]_vars

(***************************************************************************)
(* SpecSecretRef: getSecretRef(v) for a value v, and transformFields on    *)
(* the tree {password: v}, whose field password the schema marks           *)
(* sensitive.                                                              *)
(***************************************************************************)
Words == {"data", "vault_secret", "ex_db", "password"}

\* the interpolation expressions of n dot-separated components
RECURSIVE Expressions(_)
Expressions(n) ==
    IF n = 1 THEN Words
    ELSE {e \o "." \o w : e \in Expressions(n - 1), w \in Words}

SecretValues ==
    {VStr("${" \o e \o "}") : e \in UNION {Expressions(n) : n \in 1..MaxParts}}
    \cup {VStr("${aws_db_instance.example.password}"),
          VStr("${file(\"certs/tls/key.pem\")}"),
          VStr("${file(\"key.pem\")}"),
          VStr("hunter2"),
          VStr("${}"),
          VNum(8080),
          VList(<<VStr("${data.vault_secret.ex_db.password}")>>)}

InitSecretRef ==
    /\ sv \in SecretValues
    /\ secretRef = <<>>
    /\ input = [password |-> sv]
    /\ params = input
    /\ pc = "call"
    /\ pending = {}
    /\ created = {}
    /\ revisits = MaxRevisits
    /\ lookups = EmptyMap
    /\ relooked = {}
    /\ NoGenerator

GetSecretRef ==
    /\ secretRef = <<>>
    /\ secretRef' = getSecretRef(sv)
    /\ UNCHANGED <<sv, transformVars, generatorVars>>

TransformPassword ==
    /\ pc = "call"
    /\ params' \in transformFields(params, "")
    /\ pc' = "done"
    /\ UNCHANGED <<input, rangeVars, secretVars, generatorVars>>

NextSecretRef == GetSecretRef \/ TransformPassword

SpecSecretRef == InitSecretRef /\ [][NextSecretRef]_vars

\* the text between "${" and "}" of a value "${...}"
Inner(v) == SubSeq(v.v, 3, Len(v.v) - 1)

\* v is "${e}" for an expression e of at least three components that is no
\* file reference
IsAttributeReference(v) ==
    /\ v.k = "str"
    /\ Len(v.v) >= 4
    /\ HasAt(v.v, "${", 1)
    /\ IndexFrom(v.v, "}", 1) = Len(v.v)
    /\ IndexFrom(v.v, "file(", 1) = 0
    /\ Len(Split(Inner(v), ".")) >= 3

\* name is "example-" and component without its first "_"-separated token,
\* the other tokens joined by "-"
NamedAfter(name, component) ==
    /\ HasAt(name, "example-", 1)
    /\ component =
          Split(component, "_")[1]
              \o (IF Len(name) = 8 THEN ""
                  ELSE "_" \o ReplaceAll(From(name, 9), "-", "_"))

\* key is "attribute." and what follows the first two components of e
KeyedAfter(key, e) ==
    /\ HasAt(key, "attribute.", 1)
    /\ e = Split(e, ".")[1] \o "." \o Split(e, ".")[2] \o "." \o From(key, 11)

PasswordSecretRef(name, key) ==
    [passwordSecretRef |->
        VMap([name |-> VStr(name), namespace |-> VStr("upbound-system"),
              key |-> VStr(key)])]

ScenarioValue == VStr("${data.vault_secret.ex_db.password}")

\* C5 as claimed: the sensitive field password: "${data.vault_secret.ex_db.password}"
\* is rewritten to passwordSecretRef: {name: "example-db", namespace:
\* "upbound-system", key: "attribute.password"}.
C5_AsClaimed ==
    (sv = ScenarioValue /\ pc = "done") =>
        params = PasswordSecretRef("example-db", "attribute.password")

\* C5: for a string whose interpolation expression is no file reference and has
\* at least three dot-separated components, getSecretRef returns the name
\* "example-" + (the FIRST component without its leading "_"-separated token,
\* the other tokens joined by "-") and the key "attribute." + (the components
\* from the THIRD on, joined by "."); the sensitive field password:
\* "${data.vault_secret.ex_db.password}" is rewritten to passwordSecretRef:
\* {name: "example-", namespace: "upbound-system", key: "attribute.ex_db.password"}.
C5_SecretRefOfExpression ==
    /\ (secretRef # <<>> /\ IsAttributeReference(sv)) =>
          /\ NamedAfter(secretRef[1], Split(Inner(sv), ".")[1])
          /\ KeyedAfter(secretRef[2], Inner(sv))
          /\ pc = "done" => params = PasswordSecretRef(secretRef[1], secretRef[2])
    /\ (secretRef # <<>> /\ sv = ScenarioValue) =>
          secretRef = <<"example-", "attribute.ex_db.password">>

C5_Witness ==
    /\ sv = ScenarioValue
    /\ IsAttributeReference(sv)
    /\ pc = "done"
    /\ secretRef = <<"example-", "attribute.ex_db.password">>
    /\ params = PasswordSecretRef("example-", "attribute.ex_db.password")

(***************************************************************************)
(* Properties of transformFields (SpecTransform).  They read the schema,   *)
(* the references and the omitted fields themselves, not the operators     *)
(* that model the code.                                                    *)
(***************************************************************************)
InSchema(path) == path \in DOMAIN TerraformResource

ObservedOnly(path) ==
    /\ InSchema(path)
    /\ TerraformResource[path].Computed
    /\ ~TerraformResource[path].Optional

OmittedPath(path) == \E i \in DOMAIN OmittedFields : OmittedFields[i] = path

SensitivePath(path) == InSchema(path) /\ TerraformResource[path].Sensitive

ReferencePath(path) == path \in DOMAIN References

PathOf(prefix, n) == IF prefix = "" THEN n ELSE prefix \o "." \o n

IsScalar(v) == v.k \in {"str", "num"}

\* the key under which a field that is neither elided, sensitive nor a
\* reference is found after the rewrite pass
KeptAs(prefix, n) == IF InSchema(PathOf(prefix, n)) THEN NewFromSnake(n) ELSE n

\* a level and the level it became: the nested levels and what they became
Descends(in, out, prefix, n) ==
    /\ ~ObservedOnly(PathOf(prefix, n))
    /\ ~OmittedPath(PathOf(prefix, n))
    /\ ~SensitivePath(PathOf(prefix, n))
    /\ ~ReferencePath(PathOf(prefix, n))
    /\ KeptAs(prefix, n) \in DOMAIN out
    /\ out[KeptAs(prefix, n)].k = in[n].k

\* no key of the tree m, at any level, has an observed-only or omitted path
RECURSIVE NoElidedPath(_, _)
NoElidedPath(m, prefix) ==
    \A n \in DOMAIN m :
        /\ ~ObservedOnly(PathOf(prefix, n))
        /\ ~OmittedPath(PathOf(prefix, n))
        /\ m[n].k = "map" => NoElidedPath(m[n].v, PathOf(prefix, n))
        /\ m[n].k \in {"list", "reflist"} =>
              \A i \in DOMAIN m[n].v :
                  m[n].v[i].k = "map" => NoElidedPath(m[n].v[i].v, PathOf(prefix, n))

\* C1: when transformFields has returned, no key left at any level of the tree,
\* the trees that are elements of sequences included, has a hierarchical path
\* that the schema marks observed-only or that is an entry of the omitted fields.
C1_ElisionComplete == pc = "done" => NoElidedPath(params, "")

C1_Witness ==
    /\ pc = "done"
    /\ "id" \in DOMAIN input
    /\ "rule" \in DOMAIN input
    /\ input["rule"].k = "list"
    /\ "arn" \in DOMAIN input["rule"].v[1].v
    /\ "rule" \in DOMAIN params

\* the level out that the level in became holds, for the sensitive scalar n of
\* in, the secret reference and neither n nor its plaintext
SecretRefIn(in, out, prefix, n) ==
    LET ref == NewFromSnake(n) \o "SecretRef"
    IN  /\ ref \in DOMAIN out
        /\ out[ref].k = "map"
        /\ DOMAIN out[ref].v = {"name", "namespace", "key"}
        /\ out[ref].v["namespace"] = VStr("upbound-system")
        /\ n \notin DOMAIN out
        /\ \A x \in DOMAIN out :
              out[x] = in[n] => \E y \in DOMAIN in \ {n} : in[y] = in[n]

RECURSIVE SensitiveRewritten(_, _, _)
SensitiveRewritten(in, out, prefix) ==
    \A n \in DOMAIN in :
        /\ (/\ SensitivePath(PathOf(prefix, n))
            /\ ~ObservedOnly(PathOf(prefix, n))
            /\ ~OmittedPath(PathOf(prefix, n))
            /\ IsScalar(in[n])) => SecretRefIn(in, out, prefix, n)
        /\ (Descends(in, out, prefix, n) /\ in[n].k = "map") =>
              SensitiveRewritten(in[n].v, out[KeptAs(prefix, n)].v, PathOf(prefix, n))
        /\ (Descends(in, out, prefix, n) /\ in[n].k = "list") =>
              \A i \in DOMAIN in[n].v :
                  in[n].v[i].k = "map" =>
                      SensitiveRewritten(in[n].v[i].v,
                                         out[KeptAs(prefix, n)].v[i].v,
                                         PathOf(prefix, n))

\* C2: when transformFields has returned, every level that held a surviving
\* sensitive scalar field holds <camelCaseName>SecretRef, an object with exactly
\* the keys name, namespace ("upbound-system") and key; the original key is gone,
\* and a key of the level that holds the plaintext is another field of the input
\* that held the same value already; a reference declared for the same path does
\* not change this.
C2_SensitiveToSecretRef == pc = "done" => SensitiveRewritten(input, params, "")

C2_Witness ==
    /\ pc = "done"
    /\ "token" \in DOMAIN input
    /\ "token" \in DOMAIN References
    /\ "rule" \in DOMAIN input
    /\ input["rule"].k = "map"
    /\ "tokenSecretRef" \in DOMAIN params
    /\ "apiKeySecretRef" \in DOMAIN params["rule"].v

RefKey(path, n) ==
    ReferenceFieldName(NewFromSnake(n),
                       TerraformResource[path].Type \in {"TypeList", "TypeSet"},
                       References[path].RefFieldName)

SelectorKey(path, n) ==
    SelectorFieldName(NewFromSnake(n), References[path].SelectorFieldName)

IsNameRefs(v, len) ==
    /\ v.k = "reflist"
    /\ Len(v.v) = len
    /\ \A i \in DOMAIN v.v : v.v[i].k = "map" /\ DOMAIN v.v[i].v = {"name"}

IsSelector(v) ==
    /\ v.k = "map"
    /\ DOMAIN v.v = {"matchLabels"}
    /\ v.v["matchLabels"].k = "map"

\* the surviving reference fields of the root level that are not sensitive
ReferenceFields ==
    {n \in DOMAIN input :
        /\ InSchema(n) /\ ReferencePath(n) /\ ~SensitivePath(n)
        /\ ~ObservedOnly(n) /\ ~OmittedPath(n)}

\* C3 as claimed: a reference field whose value is a sequence or whose schema
\* cardinality is list/set gets the reference-array key and no selector key.
C3_AsClaimed ==
    pc = "done" =>
        \A n \in ReferenceFields :
            (input[n].k = "list" \/ TerraformResource[n].Type \in {"TypeList", "TypeSet"})
                => /\ RefKey(n, n) \in DOMAIN params
                   /\ SelectorKey(n, n) \notin DOMAIN params

\* C3: a reference field that is not sensitive gets the reference-array key, a
\* sequence of {name: ...} objects as long as the original sequence, exactly
\* when its original value is a sequence; in every other case, a scalar value of
\* a list/set field included, it gets the selector key with a matchLabels object.
C3_RefsIffSequence ==
    pc = "done" =>
        \A n \in ReferenceFields :
            IF input[n].k = "list"
            THEN /\ RefKey(n, n) \in DOMAIN params
                 /\ IsNameRefs(params[RefKey(n, n)], Len(input[n].v))
                 /\ SelectorKey(n, n) \notin DOMAIN params
            ELSE /\ SelectorKey(n, n) \in DOMAIN params
                 /\ IsSelector(params[SelectorKey(n, n)])
                 /\ RefKey(n, n) \notin DOMAIN params

C3_Witness ==
    /\ pc = "done"
    /\ "subnet_ids" \in DOMAIN input
    /\ input["subnet_ids"].k = "list"
    /\ Len(input["subnet_ids"].v) = 2
    /\ "subnetIdsRefs" \in DOMAIN params
    /\ "vpc_id" \in DOMAIN input
    /\ "vpcSelector" \in DOMAIN params

\* C4 as claimed: when transformFields has returned, every key of the input whose
\* path the schema does not know and that is not omitted is still there, under
\* its own name, with the value it had.
C4_PassThrough ==
    pc = "done" =>
        \A n \in DOMAIN input :
            (~InSchema(n) /\ ~OmittedPath(n)) =>
                n \in DOMAIN params /\ params[n] = input[n]

\* C10 as claimed: the rewrite pass looks every key up at most once, and never a
\* key it has inserted itself.
C10_StableSnapshot ==
    /\ relooked = {}
    /\ \A n \in DOMAIN lookups : lookups[n] <= 1

(***************************************************************************)
(* The Generator: Generate, StoreExamples, paveCRManifest, writeManifest.  *)
(*                                                                         *)
(* A PavedWithManifest is a record; its document's spec.forProvider is a   *)
(* Go map, a reference.  Generate hands paveCRManifest the map that        *)
(* Examples[0].Paved.UnstructuredContent() returns, which is the example's *)
(* own map, so the forProvider of resources[rn] and the example's tree are *)
(* one object: meta[r].Examples[1].Paved.  The forProvider of a dependency *)
(* document is the map json.TFParser.Unmarshal has just made.  Every       *)
(* configured resource has the schema, references and omitted fields       *)
(* above.                                                                  *)
(***************************************************************************)
Wildcard == "*"

rootDir == "/provider"

configResources ==
    [aws_vpc      |-> [Name |-> "aws_vpc", Kind |-> "VPC"],
     aws_subnet   |-> [Name |-> "aws_subnet", Kind |-> "Subnet"],
     aws_instance |-> [Name |-> "aws_instance", Kind |-> "Instance"],
     aws_eip      |-> [Name |-> "aws_eip", Kind |-> "EIP"],
     aws_ami      |-> [Name |-> "aws_ami", Kind |-> "AMI"]]

\* the group and version Generate is called with for a resource
GroupOf(r) == "ec2.aws.upbound.io"

VersionOf(r) == "v1beta1"

\* a dependency's raw parameter blob: what json.TFParser.Unmarshal makes of it
Blob(tree) == [ok |-> TRUE, params |-> tree]

Malformed == [ok |-> FALSE, params |-> EmptyMap]

VpcTrees ==
    {[name |-> VStr("web"), depends_on |-> VList(<<VStr("aws_eip.nat")>>)],
     [id |-> VStr("i-0a1"), rule |-> VList(<<VMap(RuleBlock)>>)]}

SubnetTree == [vpc_id |-> VStr("${aws_vpc.main_vpc.id}"), name |-> VStr("b")]

InstanceTree ==
    [subnet_ids |-> VList(<<VStr("${aws_subnet.b.id}")>>),
     password |-> VStr("hunter2"),
     depends_on |-> VList(<<VStr("aws_subnet.b")>>)]

VpcBlob == Blob([name |-> VStr("main"), depends_on |-> VStr("aws_eip.nat")])

SubnetBlob == Blob([vpc_id |-> VStr("${aws_vpc.main_vpc.id}")])

Example(name, tree, dependencies) ==
    [Examples |-> <<[Name |-> name, Paved |-> tree, Dependencies |-> dependencies]>>]

InstanceDependencies(blob) ==
    ("aws_vpc.main_vpc" :> VpcBlob) @@ ("aws_subnet.b" :> SubnetBlob)
    @@ ("aws_subnet.a" :> blob)

MetaChoices ==
    {[aws_vpc      |-> Example("main_vpc", vpc, EmptyMap),
      aws_subnet   |-> Example("b", SubnetTree, "aws_vpc.main_vpc" :> VpcBlob),
      aws_instance |-> Example("Web_1", InstanceTree, InstanceDependencies(blob)),
      aws_eip      |-> Nil,
      aws_ami      |-> [Examples |-> <<>>]] :
        vpc \in VpcTrees, blob \in {SubnetBlob, Malformed}}

dns1123Name(name) == ReplaceAll(ToLower(name), "_", "-")

\* lines 112-133, the transformed tree apart: the PavedWithManifest
paveCRManifest(r, eName, group, version) ==
    [Paved |-> [apiVersion |-> group \o "/" \o version,
                kind |-> configResources[r].Kind,
                metadata |-> [labels |-> eName, name |-> ""]],
     Config |-> r,
     Group |-> group,
     Version |-> version,
     ExampleName |-> "",
     ManifestPath |-> ""]

\* lines 171-172
ManifestPathOf(group, r) ==
    rootDir \o "/examples-generated/" \o ToLower(Split(group, ".")[1]) \o "/"
        \o ToLower(configResources[r].Kind) \o ".yaml"

\* reference.NewRefPartsFromResourceName(rn).Resource and .ExampleName
ResourceOf(rn) == Split(rn, ".")[1]

ExampleNameOf(rn) == Split(rn, ".")[2]

\* reference.Parts.GetResourceName(true)
WildcardName(rn) == ResourceOf(rn) \o "." \o Wildcard

HasExample(r) ==
    IF meta[r] = Nil THEN FALSE ELSE Len(meta[r].Examples) > 0

\* line 170 and line 173: the example's own map is transformed in place
Generated(r, tree) ==
    /\ meta' = [meta EXCEPT ![r].Examples[1].Paved = tree]
    /\ resources' =
          Put(resources, r \o "." \o Wildcard,
              [paveCRManifest(r, meta[r].Examples[1].Name, GroupOf(r), VersionOf(r))
                  EXCEPT !.ManifestPath = ManifestPathOf(GroupOf(r), r)])

\* lines 165-175; the pipeline generates every example before it stores them
Generate(r) ==
    /\ storePc = "idle"
    /\ IF HasExample(r)
       THEN \E tree \in transformFields(meta[r].Examples[1].Paved, "") :
               Generated(r, tree)
       ELSE UNCHANGED <<meta, resources>>
    /\ UNCHANGED <<meta0, files, filesAtStart, storePc, remaining, failed,
                   secretVars, transformVars>>

\* yaml.Marshal of the document: what the document holds when it is written
Document(pm, tree) ==
    [apiVersion |-> pm.Paved.apiVersion,
     kind |-> pm.Paved.kind,
     metadata |-> pm.Paved.metadata,
     spec |-> [forProvider |-> tree]]

Named(pm) ==
    [pm EXCEPT !.ExampleName = dns1123Name(pm.Paved.metadata.labels),
               !.Paved.metadata.name = dns1123Name(pm.Paved.metadata.labels)]

\* the tree with depends_on left in it
KeepDependsOn(tree) == tree

\* line 152
StripDependsOn(tree) == Delete(tree, "depends_on")

\* what a step leaves: whether it failed, the buffer, the manifest and its tree
Outcome(err, buff, pm, tree) ==
    [err |-> err, buff |-> buff, pm |-> pm, tree |-> tree]

\* lines 139-162; fault is the step of it that fails, if any.  The resolve
\* operation of line 140 is not part of this package: it rewrites values of the
\* reference fields, never a key, and here it either fails or leaves the
\* placeholders as they are.
writeManifest(buff, pm, tree, fault) ==
    IF fault = "resolve" THEN Outcome(TRUE, buff, pm, tree)
    ELSE IF fault = "marshal"
    THEN Outcome(TRUE, buff, Named(pm), StripDependsOn(tree))
    ELSE Outcome(FALSE,
                 Append(buff, Document(Named(pm), StripDependsOn(tree))),
                 Named(pm), StripDependsOn(tree))

\* the order of bytes, for the characters of resource names
ByteOrder == "*-.0123456789ABCDEFGHIJKLMNOPQRSTUVWXYZ_abcdefghijklmnopqrstuvwxyz"

Byte(c) == IndexFrom(ByteOrder, c, 1)

\* a < b as Go compares strings
RECURSIVE StringLess(_, _)
StringLess(a, b) ==
    IF b = "" THEN FALSE
    ELSE IF a = "" THEN TRUE
    ELSE IF Char(a, 1) = Char(b, 1) THEN StringLess(From(a, 2), From(b, 2))
    ELSE Byte(Char(a, 1)) < Byte(Char(b, 1))

\* x put into the sorted sequence keys
RECURSIVE Insert(_, _)
Insert(keys, x) ==
    IF keys = <<>> THEN <<x>>
    ELSE IF StringLess(x, Head(keys)) THEN <<x>> \o keys
    ELSE <<Head(keys)>> \o Insert(Tail(keys), x)

\* sort.Strings
RECURSIVE SortStrings(_)
SortStrings(keys) ==
    IF keys = <<>> THEN <<>> ELSE Insert(SortStrings(Tail(keys)), Head(keys))

\* the keys left in the order the range produced them
UnsortedKeys(order) == order

\* lines 83-87: the keys as the range over the map produced them, sorted
SortedKeys(order) == SortStrings(order)

\* the orders in which a range can produce the keys of a map
Orders(keys) ==
    {o \in [1..Cardinality(keys) -> keys] : \A k \in keys : \E i \in DOMAIN o : o[i] = k}

Fault(at, dn) == [at |-> at, dn |-> dn]

\* the step of the store of a resource that fails, if any
Faults(re) ==
    {Fault(at, "") : at \in {"none", "mkdir", "resolve", "marshal", "context", "write"}}
    \cup {Fault(at, dn) : at \in {"resolve", "marshal"}, dn \in DOMAIN re.Dependencies}

FaultAt(fault, dn) == IF fault.dn = dn THEN fault.at ELSE "none"

\* lines 88-102: what the loop over the sorted dependency keys can leave
RECURSIVE StoreDependencies(_, _, _, _)
AfterDependency(w, dKeys, re, fault) ==
    IF w.err THEN {w} ELSE StoreDependencies(w.buff, dKeys, re, fault)

\* lines 93-101, for the dependency dn of a generated resource
StoreDependency(buff, dn, dKeys, re, fault) ==
    IF ~re.Dependencies[dn].ok THEN {Outcome(TRUE, buff, Nil, EmptyMap)}
    ELSE UNION {AfterDependency(
                    writeManifest(buff,
                                  paveCRManifest(resources[WildcardName(dn)].Config,
                                                 ExampleNameOf(dn),
                                                 resources[WildcardName(dn)].Group,
                                                 resources[WildcardName(dn)].Version),
                                  tree, FaultAt(fault, dn)),
                    dKeys, re, fault) :
                tree \in transformFields(re.Dependencies[dn].params, "")}

StoreDependencies(buff, dKeys, re, fault) ==
    IF dKeys = <<>> THEN {Outcome(FALSE, buff, Nil, EmptyMap)}
    ELSE IF WildcardName(Head(dKeys)) \notin DOMAIN resources
    THEN StoreDependencies(buff, Tail(dKeys), re, fault)
    ELSE StoreDependency(buff, Head(dKeys), Tail(dKeys), re, fault)

\* lines 77-107: w is what writeManifest left of the primary document, d what
\* the dependencies left
StoredFile(w, d, fault) ==
    Outcome(d.err \/ fault.at = "write", d.buff, w.pm, w.tree)

AfterPrimary(w, re, fault, order) ==
    IF w.err \/ FaultAt(fault, "") = "context" THEN {Outcome(TRUE, w.buff, w.pm, w.tree)}
    ELSE {StoredFile(w, d, fault) :
          d \in StoreDependencies(w.buff, SortedKeys(order), re, fault)}

\* lines 66-107: one iteration of the loop of StoreExamples, for the entry rn
StoreOutcomes(pm, re, fault, order) ==
    IF FaultAt(fault, "") = "mkdir" THEN {Outcome(TRUE, <<>>, pm, re.Paved)}
    ELSE AfterPrimary(writeManifest(<<>>, pm, re.Paved, FaultAt(fault, "")),
                      re, fault, order)

\* line 105
WriteFile(fs, path, buff) == Put(fs, path, buff)

\* the effect of an iteration that left o
StoreTo(rn, o) ==
    /\ resources' = [resources EXCEPT ![rn] = o.pm]
    /\ meta' = [meta EXCEPT ![resources[rn].Config].Examples[1].Paved = o.tree]
    /\ remaining' = remaining \ {rn}
    /\ IF o.err
       THEN /\ failed' = rn
            /\ storePc' = "returned"
            /\ files' = files
       ELSE /\ files' = WriteFile(files, o.pm.ManifestPath, o.buff)
            /\ UNCHANGED <<failed, storePc>>

\* the call of StoreExamples, made once, after the examples are generated
StartStore ==
    /\ storePc = "idle"
    /\ storePc' = "storing"
    /\ remaining' = DOMAIN resources
    /\ failed' = ""
    /\ filesAtStart' = files
    /\ UNCHANGED <<meta, meta0, resources, files, secretVars, transformVars>>

ExampleOf(rn) == meta[resources[rn].Config].Examples[1]

StoreResource ==
    /\ storePc = "storing"
    /\ \E rn \in remaining :
          \E fault \in Faults(ExampleOf(rn)) :
              \E order \in Orders(DOMAIN ExampleOf(rn).Dependencies) :
                  \E o \in StoreOutcomes(resources[rn], ExampleOf(rn), fault, order) :
                      StoreTo(rn, o)
    /\ UNCHANGED <<meta0, filesAtStart, secretVars, transformVars>>

StoreReturn ==
    /\ storePc = "storing"
    /\ remaining = {}
    /\ storePc' = "returned"
    /\ UNCHANGED <<meta, meta0, resources, files, filesAtStart, remaining, failed,
                   secretVars, transformVars>>

InitGenerator ==
    /\ meta \in MetaChoices
    /\ meta0 = meta
    /\ resources = EmptyMap
    /\ files = EmptyMap
    /\ filesAtStart = EmptyMap
    /\ storePc = "idle"
    /\ remaining = {}
    /\ failed = ""
    /\ sv = Nil
    /\ secretRef = <<>>
    /\ params = EmptyMap
    /\ input = EmptyMap
    /\ pc = "idle"
    /\ pending = {}
    /\ created = {}
    /\ revisits = MaxRevisits
    /\ lookups = EmptyMap
    /\ relooked = {}

NextGenerator ==
    \/ \E r \in DOMAIN configResources : Generate(r)
    \/ StartStore
    \/ StoreResource
    \/ StoreReturn

SpecGenerator == InitGenerator /\ [][NextGenerator]_vars

(***************************************************************************)
(* Properties of the store phase.                                          *)
(***************************************************************************)
PathOfResource(rn) == resources[rn].ManifestPath

Stored(rn) == PathOfResource(rn) \in DOMAIN files

\* the file of rn is the one its primary document opens
OwnFile(rn) ==
    /\ Stored(rn)
    /\ Len(files[PathOfResource(rn)]) >= 1
    /\ files[PathOfResource(rn)][1].kind = configResources[resources[rn].Config].Kind
    /\ files[PathOfResource(rn)][1].metadata.labels = ExampleOf(rn).Name

FileUntouched(rn) ==
    /\ Stored(rn) <=> PathOfResource(rn) \in DOMAIN filesAtStart
    /\ Stored(rn) => files[PathOfResource(rn)] = filesAtStart[PathOfResource(rn)]

\* C6 as the claim states it: when a step has failed for one resource, every
\* other resource that has a paved manifest still has its own file written.
C6_AsClaimed ==
    (storePc = "returned" /\ failed # "") =>
        \A rn \in DOMAIN resources \ {failed} : OwnFile(rn)

\* What the code does at a failure: the store phase ends at once, the resource
\* that failed and every resource not yet reached have no file written, the
\* resources stored before it keep their files, and a store phase without a
\* failure writes the file of every paved resource.
StoreEndsAtFailure ==
    /\ failed # "" =>
          /\ storePc = "returned"
          /\ failed \notin remaining
          /\ \A rn \in remaining \cup {failed} : FileUntouched(rn)
          /\ \A rn \in DOMAIN resources \ (remaining \cup {failed}) : OwnFile(rn)
    /\ (storePc = "returned" /\ failed = "") =>
          \A rn \in DOMAIN resources : OwnFile(rn)

ResourceOfKind(kind) ==
    CHOOSE r \in DOMAIN configResources : configResources[r].Kind = kind

\* the dependency identifier a dependency document was made for
DependencyOf(doc) == ResourceOfKind(doc.kind) \o "." \o doc.metadata.labels

WrittenDependencies(rn) ==
    {dn \in DOMAIN ExampleOf(rn).Dependencies : WildcardName(dn) \in DOMAIN resources}

Ascending(buff) ==
    \A i \in 2..Len(buff) : \A j \in 2..Len(buff) :
        i < j => StringLess(DependencyOf(buff[i]), DependencyOf(buff[j]))

\* C7: the file of a resource holds its primary document first and then one
\* document for each dependency whose resource was generated, in ascending
\* order of the dependency identifiers, whatever order the range over the
\* dependency map produced them in.
C7_DependenciesAscending ==
    \A rn \in DOMAIN resources :
        Stored(rn) =>
            /\ OwnFile(rn)
            /\ {DependencyOf(files[PathOfResource(rn)][i]) :
                    i \in 2..Len(files[PathOfResource(rn)])} = WrittenDependencies(rn)
            /\ Len(files[PathOfResource(rn)]) = 1 + Cardinality(WrittenDependencies(rn))
            /\ Ascending(files[PathOfResource(rn)])

C7_Witness ==
    /\ "aws_instance.*" \in DOMAIN resources
    /\ Stored("aws_instance.*")
    /\ Len(files[PathOfResource("aws_instance.*")]) = 4
    /\ files[PathOfResource("aws_instance.*")][2].metadata.name = "a"
    /\ files[PathOfResource("aws_instance.*")][3].metadata.name = "b"
    /\ files[PathOfResource("aws_instance.*")][4].metadata.name = "main-vpc"

\* the key n is a key of the tree m or of a tree below it
RECURSIVE HasKey(_, _)
HasKey(m, n) ==
    \/ n \in DOMAIN m
    \/ \E x \in DOMAIN m :
          \/ m[x].k = "map" /\ HasKey(m[x].v, n)
          \/ /\ m[x].k \in {"list", "reflist"}
             /\ \E i \in DOMAIN m[x].v : m[x].v[i].k = "map" /\ HasKey(m[x].v[i].v, n)

WrittenDocuments ==
    UNION {{files[path][i] : i \in DOMAIN files[path]} : path \in DOMAIN files}

\* C8 as the claim states it: no written document has a key depends_on anywhere
\* under spec.forProvider.
C8_AsClaimed ==
    \A doc \in WrittenDocuments : ~HasKey(doc.spec.forProvider, "depends_on")

\* C8: no written document, primary or dependency, has the key depends_on at
\* the top level of spec.forProvider; a depends_on key of a nested tree is
\* written as it is.
C8_NoTopLevelDependsOn ==
    \A doc \in WrittenDocuments : "depends_on" \notin DOMAIN doc.spec.forProvider

C8_Witness ==
    /\ "depends_on" \in DOMAIN meta0["aws_vpc"].Examples[1].Paved
    /\ "aws_vpc.*" \in DOMAIN resources
    /\ "aws_subnet.*" \in DOMAIN resources
    /\ Stored("aws_vpc.*")
    /\ Stored("aws_subnet.*")
    /\ Len(files[PathOfResource("aws_subnet.*")]) = 2

\* C9 as the claim states it: the parameter tree of every declared example is
\* what it was before any call of Generate and StoreExamples.
C9_ExampleImmutable ==
    \A r \in DOMAIN configResources :
        HasExample(r) => meta[r].Examples[1].Paved = meta0[r].Examples[1].Paved

====
